---------------------------- MODULE Spec2Model ----------------------------
(***************************************************************************)
(* Model of my_agent/fix_adk_logs_patch.py: a script that locates the      *)
(* installed google/adk/cli/utils/logs.py, backs it up and rewrites the    *)
(* os.symlink call into a try/except block with a copy fallback.           *)
(*                                                                         *)
(* File contents are sequences of text fragments; the content of a file is *)
(* the concatenation of its fragments.  The fragments are the literals the *)
(* script searches for and writes, plus a filler line, chosen so that no   *)
(* searched literal occurs inside another fragment or across a fragment    *)
(* boundary: a substring test of the script is then a membership test on   *)
(* the sequence, and str.replace(old, new, 1) a splice of the sequence.    *)
(***************************************************************************)
EXTENDS Naturals, Sequences, FiniteSets

(* ------------------------------ bounds -------------------------------- *)
\* longest initial content of logs.py, in fragments
MaxLen == 3
\* number of invocations of the script that are followed
MaxRuns == 2

(* ------------------------- literals of the script --------------------- *)
marker == "fallback to copying the log file"
shutil_import == "import shutil"
anchor == "import os\n"
old_call == "os.symlink(log_filepath, latest_log_link)"
newline == "\n"
new_block_head == "try:\n        if os.path.exists(latest_log_link):\n            os.remove(latest_log_link)\n        "
new_block_tail == "\n    except OSError:\n        # Windows: creating symlinks requires a privilege; fall back to copying the file.\n        try:\n            shutil.copy2(log_filepath, latest_log_link)\n        except Exception:\n            # Last resort: ignore copying failure to avoid crashing the CLI.\n            pass\n"
\* new_block: the concatenation is the script's literal; it contains old_call
new_block == <<new_block_head, old_call, new_block_tail>>
\* "import os\nimport shutil\n", the text put in place of the anchor
anchor_with_shutil == <<anchor, shutil_import, newline>>

\* fragments an installed logs.py is made of before the first invocation
Fragments == {anchor, shutil_import, old_call, marker, newline}

(* ------------------------------ paths --------------------------------- *)
\* Path(sys.prefix)/Lib/site-packages/google/adk/cli/utils/logs.py
primary == "prefix"
\* site.getsitepackages() + [site.getusersitepackages()], each joined with
\* google/adk/cli/utils/logs.py
site_candidates == <<"global1", "global2", "user">>
Paths == {primary} \cup {site_candidates[i] : i \in 1..Len(site_candidates)}

\* the script's variable backup before line 71
NoPath == <<>>
\* exit statuses of the process
NoExit == "running"
ExitOk == "0"
ExitFail == "1"

VARIABLES
  fs,        \* existing path -> content of the logs.py there
  backups,   \* <<path, stamp>> -> content of the file path + ".bak_" + stamp
  now,       \* the wall clock, in seconds
  pc,        \* position of the running invocation in the script
  target,    \* the script's variable target
  orig,      \* the script's variable orig
  new,       \* the script's variable new
  backup,    \* the script's variable backup, as <<path, stamp>>, or NoPath
  exit,      \* exit status of the invocation, NoExit while it runs
  runs,      \* number of invocations started
  log,       \* file operations of this invocation, in order: <<op, path>>
  disk0,     \* content the target had on disk when this invocation read it
  fs0,       \* fs when this invocation started
  backups0,  \* backups when this invocation started
  applied,   \* number of invocations that wrote backup and target and exited 0
  prevApplied \* the previous invocation applied the patch

vars == <<fs, backups, now, pc, target, orig, new, backup, exit, runs, log,
          disk0, fs0, backups0, applied, prevApplied>>

(* ------------------------- pure operations ---------------------------- *)
\* sequences over S of length at most n
SeqUpTo(S, n) == UNION {[1..k -> S] : k \in 0..n}

\* Python: sub in s
In(sub, s) == \E i \in 1..Len(s) : s[i] = sub

\* Replace1 without its count argument: every occurrence is replaced
RECURSIVE ReplaceEvery(_, _, _)
ReplaceEvery(s, old, repl) ==
  IF s = <<>> THEN <<>>
  ELSE IF Head(s) = old THEN repl \o ReplaceEvery(Tail(s), old, repl)
  ELSE <<Head(s)>> \o ReplaceEvery(Tail(s), old, repl)

\* Python: s.replace(old, repl, 1), scanning from the left
RECURSIVE Replace1(_, _, _)
Replace1(s, old, repl) ==
  IF s = <<>> THEN <<>>
  ELSE IF Head(s) = old THEN repl \o Tail(s)
  ELSE <<Head(s)>> \o Replace1(Tail(s), old, repl)

\* Path.exists()
Exists(p) == p \in DOMAIN fs

\* Scan without the break: the last existing candidate wins
RECURSIVE ScanNoBreak(_, _)
ScanNoBreak(cands, t) ==
  IF cands = <<>> THEN t
  ELSE ScanNoBreak(Tail(cands), IF Exists(Head(cands)) THEN Head(cands) ELSE t)

\* the for loop over the site-package directories, with its break
RECURSIVE Scan(_, _)
Scan(cands, t) ==
  IF cands = <<>> THEN t
  ELSE IF Exists(Head(cands)) THEN Head(cands)
  ELSE Scan(Tail(cands), t)

\* the invocation performed the file operation op
Did(op) == \E i \in 1..Len(log) : log[i][1] = op

\* the invocation wrote the patched content and ended with status 0
Applied == pc = "done" /\ exit = ExitOk /\ Did("target")

\* the file written at key k exists with content c, the others are kept
WithBackup(b, k, c) ==
  [x \in DOMAIN b \cup {k} |-> IF x = k THEN c ELSE b[x]]

(* ------------------------------ Init ---------------------------------- *)
Init ==
  /\ \E c \in SeqUpTo(Fragments, MaxLen), E \in SUBSET Paths :
        fs = [p \in E |-> c]
  /\ backups = <<>>
  /\ now = 0
  /\ pc = "locate"
  /\ target = primary
  /\ orig = <<>>
  /\ new = <<>>
  /\ backup = NoPath
  /\ exit = NoExit
  /\ runs = 1
  /\ log = <<>>
  /\ disk0 = <<>>
  /\ fs0 = fs
  /\ backups0 = backups
  /\ applied = 0
  /\ prevApplied = FALSE

(* ----------------------------- actions -------------------------------- *)
\* lines 19-29: primary path, else the first existing site candidate
Locate ==
  /\ pc = "locate"
  /\ target' = IF Exists(primary) THEN primary ELSE Scan(site_candidates, primary)
  /\ pc' = "exists"
  /\ UNCHANGED <<fs, backups, now, orig, new, backup, exit, runs, log, disk0,
                 fs0, backups0, applied, prevApplied>>

\* MissingTarget without the existence check: read_text raises
MissingTargetReads ==
  /\ pc = "exists"
  /\ ~Exists(target)
  /\ log' = Append(log, <<"read failed", target>>)
  /\ exit' = ExitFail
  /\ pc' = "done"
  /\ UNCHANGED <<fs, backups, now, target, orig, new, backup, runs, disk0,
                 fs0, backups0, applied, prevApplied>>

\* lines 30-32: no logs.py found, exit 1
MissingTarget ==
  /\ pc = "exists"
  /\ ~Exists(target)
  /\ exit' = ExitFail
  /\ pc' = "done"
  /\ UNCHANGED <<fs, backups, now, target, orig, new, backup, runs, log, disk0,
                 fs0, backups0, applied, prevApplied>>

\* line 35: orig = target.read_text()
ReadTarget ==
  /\ pc = "exists"
  /\ Exists(target)
  /\ orig' = fs[target]
  /\ disk0' = fs[target]
  /\ log' = Append(log, <<"read", target>>)
  /\ pc' = "marker"
  /\ UNCHANGED <<fs, backups, now, target, new, backup, exit, runs, fs0,
                 backups0, applied, prevApplied>>

\* MarkerCheck after the pattern check: the marker only counts when the
\* call is gone
MarkerCheckAfterPattern ==
  /\ pc = "marker"
  /\ IF In(marker, orig) /\ ~In(old_call, orig)
       THEN exit' = ExitOk /\ pc' = "done"
       ELSE exit' = exit /\ pc' = "import"
  /\ UNCHANGED <<fs, backups, now, target, orig, new, backup, runs, log, disk0,
                 fs0, backups0, applied, prevApplied>>

\* lines 38-40: the marker is in the content, exit 0
MarkerCheck ==
  /\ pc = "marker"
  /\ IF In(marker, orig)
       THEN exit' = ExitOk /\ pc' = "done"
       ELSE exit' = exit /\ pc' = "import"
  /\ UNCHANGED <<fs, backups, now, target, orig, new, backup, runs, log, disk0,
                 fs0, backups0, applied, prevApplied>>

\* lines 43-45: add import shutil after the first import os, in orig
EnsureImport ==
  /\ pc = "import"
  /\ orig' = IF ~In(shutil_import, orig)
               THEN Replace1(orig, anchor, anchor_with_shutil)
               ELSE orig
  /\ pc' = "pattern"
  /\ UNCHANGED <<fs, backups, now, target, new, backup, exit, runs, log, disk0,
                 fs0, backups0, applied, prevApplied>>

\* PatternCheck that saves the content with the import before giving up
PatternCheckSavesImport ==
  /\ pc = "pattern"
  /\ IF ~In(old_call, orig)
       THEN exit' = ExitFail /\ pc' = "done" /\ new' = new
            /\ fs' = [fs EXCEPT ![target] = orig]
       ELSE exit' = exit /\ pc' = "backup" /\ fs' = fs
            /\ new' = Replace1(orig, old_call, new_block)
  /\ UNCHANGED <<backups, now, target, orig, backup, runs, log, disk0,
                 fs0, backups0, applied, prevApplied>>

\* lines 48-67: exit 1 when the call is not in orig, else build new
PatternCheck ==
  /\ pc = "pattern"
  /\ IF ~In(old_call, orig)
       THEN exit' = ExitFail /\ pc' = "done" /\ new' = new
       ELSE exit' = exit /\ pc' = "backup"
            /\ new' = Replace1(orig, old_call, new_block)
  /\ UNCHANGED <<fs, backups, now, target, orig, backup, runs, log, disk0,
                 fs0, backups0, applied, prevApplied>>

\* WriteBackup that computes the backup path and does not write it
WriteBackupSkipped ==
  /\ pc = "backup"
  /\ backup' = <<target, now>>
  /\ pc' = "write"
  /\ UNCHANGED <<fs, backups, now, target, orig, new, exit, runs, log, disk0,
                 fs0, backups0, applied, prevApplied>>

\* lines 70-73: stamp, backup path, backup.write_text(orig)
WriteBackup ==
  /\ pc = "backup"
  /\ backup' = <<target, now>>
  /\ backups' = WithBackup(backups, <<target, now>>, orig)
  /\ log' = Append(log, <<"backup", target>>)
  /\ pc' = "write"
  /\ UNCHANGED <<fs, now, target, orig, new, exit, runs, disk0, fs0, backups0,
                 applied, prevApplied>>

\* line 76: target.write_text(new), then the script ends with status 0
WriteTarget ==
  /\ pc = "write"
  /\ fs' = [fs EXCEPT ![target] = new]
  /\ log' = Append(log, <<"target", target>>)
  /\ applied' = applied + 1
  /\ exit' = ExitOk
  /\ pc' = "done"
  /\ UNCHANGED <<backups, now, target, orig, new, backup, runs, disk0, fs0,
                 backups0, prevApplied>>

\* line 73 raising OSError: the backup file was not opened, or it was opened
\* (created or truncated) and nothing written; the traceback ends the run
WriteBackupFails ==
  /\ pc = "backup"
  /\ backup' = <<target, now>>
  /\ \/ backups' = backups
     \/ backups' = WithBackup(backups, <<target, now>>, <<>>)
  /\ log' = Append(log, <<"backup failed", target>>)
  /\ exit' = ExitFail
  /\ pc' = "done"
  /\ UNCHANGED <<fs, now, target, orig, new, runs, disk0, fs0, backups0,
                 applied, prevApplied>>

\* line 76 raising OSError: the target was not opened, or it was truncated
WriteTargetFails ==
  /\ pc = "write"
  /\ \/ fs' = fs
     \/ fs' = [fs EXCEPT ![target] = <<>>]
  /\ log' = Append(log, <<"target failed", target>>)
  /\ exit' = ExitFail
  /\ pc' = "done"
  /\ UNCHANGED <<backups, now, target, orig, new, backup, runs, disk0, fs0,
                 backups0, applied, prevApplied>>

\* the operator invokes the script again, in the same second or later
NextRun ==
  /\ pc = "done"
  /\ runs < MaxRuns
  /\ runs' = runs + 1
  /\ \E d \in {0, 1} : now' = now + d
  /\ prevApplied' = Applied
  /\ pc' = "locate"
  /\ target' = primary
  /\ orig' = <<>>
  /\ new' = <<>>
  /\ backup' = NoPath
  /\ exit' = NoExit
  /\ log' = <<>>
  /\ disk0' = <<>>
  /\ fs0' = fs
  /\ backups0' = backups
  /\ UNCHANGED <<fs, backups, applied>>

Script ==
  \/ Locate
  \/ MissingTarget
  \/ ReadTarget
  \/ MarkerCheck
  \/ EnsureImport
  \/ PatternCheck
  \/ WriteBackup
  \/ WriteTarget
  \/ NextRun

Next ==
  \/ Script
  \/ WriteBackupFails
  \/ WriteTargetFails

\* every behaviour of the script, file writes that raise included
Spec == Init /\ [][Next]_vars

\* the behaviours in which no file write raises
SpecNoErr == Init /\ [][Script]_vars

(* --------------------------- observations ----------------------------- *)
\* the invocation has read its target
HasRead == pc \notin {"locate", "exists"} /\ Did("read")

\* the file operations of the invocation, in order
Ops == [i \in 1..Len(log) |-> log[i][1]]

\* the invocation has changed nothing on disk
NothingWritten == fs = fs0 /\ backups = backups0

\* number of occurrences of the fragment f in s
RECURSIVE Count(_, _)
Count(f, s) ==
  IF s = <<>> THEN 0
  ELSE (IF Head(s) = f THEN 1 ELSE 0) + Count(f, Tail(s))

\* s with the fragments of r put in place of its i-th fragment
Splice(s, i, r) == SubSeq(s, 1, i - 1) \o r \o SubSeq(s, i + 1, Len(s))

\* i is the first position of f in s
FirstAt(f, s, i) == s[i] = f /\ \A j \in 1..(i - 1) : s[j] # f

\* s, and every content made from s by inserting the line "import shutil\n"
WithOptionalImport(s) ==
  {s} \cup {SubSeq(s, 1, k) \o <<shutil_import, newline>> \o SubSeq(s, k + 1, Len(s)) :
              k \in 0..Len(s)}

\* the target the lookup order of the claim selects
ExpectedTarget ==
  IF primary \in DOMAIN fs0 THEN primary
  ELSE IF \E i \in 1..Len(site_candidates) : site_candidates[i] \in DOMAIN fs0
    THEN site_candidates[CHOOSE i \in 1..Len(site_candidates) :
            /\ site_candidates[i] \in DOMAIN fs0
            /\ \A j \in 1..(i - 1) : site_candidates[j] \notin DOMAIN fs0]
    ELSE primary

(* ------------------------------ claims -------------------------------- *)

\* C1: when the previous invocation applied the patch, the next invocation on
\* the same file ends with status 0 and has written nothing: no backup is
\* created and the target content is the content the first run left.
C1_Idempotence ==
  (pc = "done" /\ prevApplied) =>
     (exit = ExitOk /\ NothingWritten /\ Ops = <<"read">>)

\* C2: after an invocation that applied the patch, the backup file it wrote
\* holds exactly the content the target had on disk before the invocation.
C2_BackupFidelity ==
  Applied => (backup \in DOMAIN backups /\ backups[backup] = fs0[target])

\* C3: a target that exists and holds neither the marker nor the call pattern
\* is never written, no backup is made, and the invocation ends with status 1.
C3_SafetyOnMismatch ==
  (HasRead /\ ~In(marker, fs0[target]) /\ ~In(old_call, fs0[target])) =>
     /\ NothingWritten
     /\ Ops = <<"read">>
     /\ pc = "done" => exit = ExitFail

\* C3 witness: such an invocation has ended, and had inserted the import in
\* its in-memory copy of the content.
C3_Witness ==
  /\ pc = "done" /\ HasRead
  /\ ~In(marker, fs0[target]) /\ ~In(old_call, fs0[target])
  /\ orig # fs0[target]
  /\ exit = ExitFail

\* C4: a target whose content holds the marker is never written, no backup is
\* made, the pattern check is not reached and the invocation ends with
\* status 0, whether or not the call pattern or the import are in the content.
C4_AlreadyPatchedNoOp ==
  (HasRead /\ In(marker, fs0[target])) =>
     /\ NothingWritten
     /\ Ops = <<"read">>
     /\ pc \in {"marker", "done"}
     /\ pc = "done" => exit = ExitOk

\* C4 witness: an invocation ended on a content with the marker and the call
\* pattern and without the import.
C4_Witness ==
  /\ pc = "done" /\ HasRead
  /\ In(marker, fs0[target]) /\ In(old_call, fs0[target])
  /\ ~In(shutil_import, fs0[target])
  /\ exit = ExitOk

\* C5: when no candidate path exists, the invocation performs no file
\* operation at all, changes nothing on disk and ends with status 1.
C5_SafetyOnMissingTarget ==
  (DOMAIN fs0 = {}) =>
     /\ log = <<>>
     /\ NothingWritten
     /\ pc \in {"locate", "exists", "done"}
     /\ pc = "done" => exit = ExitFail

\* C5 witness: an invocation ended although no candidate exists.
C5_Witness == pc = "done" /\ DOMAIN fs0 = {} /\ exit = ExitFail

\* C6 as stated: an invocation never ends with the backup written and the
\* target not rewritten, or the target rewritten and no backup written, even
\* when a write raises; and the backup is written before the target.
C6_BackupAndRewriteTogether ==
  /\ pc = "done" => (Did("backup") <=> Did("target"))
  /\ Did("target") => Ops = <<"read", "backup", "target">>

\* C6 amended: an invocation never ends with the target rewritten and no
\* backup written; the target is written, or its write attempted, only after
\* the backup write of the same invocation completed; and an invocation ends
\* with the backup written and the target not rewritten only when the write
\* of the target raised.
C6_BackupBeforeRewrite ==
  /\ pc = "done" => (Did("target") => Did("backup"))
  /\ (Did("target") \/ Did("target failed") \/ fs # fs0) =>
        /\ SubSeq(Ops, 1, 2) = <<"read", "backup">>
        /\ backup \in DOMAIN backups /\ backups[backup] = orig
  /\ (pc = "done" /\ Did("backup") /\ ~Did("target")) => Did("target failed")

\* C6 witness: the target was rewritten after its backup.
C6_Witness ==
  /\ Applied /\ Ops = <<"read", "backup", "target">>
  /\ fs # fs0 /\ backups # backups0

\* C7: after any sequence of invocations the number of backup files equals
\* the number of invocations that applied the patch.
C7_OneBackupPerApplication ==
  pc = "done" => Cardinality(DOMAIN backups) = applied

\* C8: after an invocation that applied the patch, the target holds
\* "import shutil"; when it did not before, the import is there once, right
\* after the first "import os\n".
C8_ImportEnsured ==
  Applied =>
     /\ In(shutil_import, fs[target])
     /\ ~In(shutil_import, fs0[target]) =>
          /\ Count(shutil_import, fs[target]) = 1
          /\ \E i \in 1..(Len(fs[target]) - 1) :
                /\ FirstAt(anchor, fs[target], i)
                /\ fs[target][i + 1] = shutil_import

\* C9: after an invocation that applied the patch, the target content is the
\* content before the invocation, with at most one import line inserted, in
\* which the first occurrence of the call pattern is replaced by the
\* replacement block and everything else is as it was.
C9_SingleSubstitution ==
  Applied =>
     \E d \in WithOptionalImport(fs0[target]) :
        \E i \in 1..Len(d) :
           /\ FirstAt(old_call, d, i)
           /\ fs[target] = Splice(d, i, new_block)

\* C9 witness: the patch was applied to a content with two occurrences of the
\* call pattern, and the import was inserted.
C9_Witness ==
  /\ Applied
  /\ Count(old_call, fs0[target]) = 2
  /\ ~In(shutil_import, fs0[target]) /\ In(shutil_import, fs[target])

\* C10: the target is the primary path when it exists, else the first
\* existing site candidate, else the primary path; and every file the
\* invocation reads, backs up or writes is that target.
C10_TargetLocationOrder ==
  pc # "locate" =>
     /\ target = ExpectedTarget
     /\ \A i \in 1..Len(log) : log[i][2] = target
     /\ backup # NoPath => backup[1] = target
     /\ \A p \in DOMAIN fs : p # target => fs[p] = fs0[p]
     /\ DOMAIN backups \ DOMAIN backups0 \subseteq {<<target, now>>}

\* C10 witness: the patch was applied to the second global candidate while
\* the primary path and the first global candidate do not exist and the user
\* candidate does.
C10_Witness ==
  /\ Applied
  /\ target = site_candidates[2]
  /\ DOMAIN fs0 = {site_candidates[2], site_candidates[3]}
  /\ fs # fs0

=============================================================================
